---- MODULE Spec2Model ----
(***************************************************************************)
(* SqlTableExtractor of sql-tables-parser (metadata-catalog variant).      *)
(*                                                                         *)
(* Text is a sequence of one-character strings.  Indices into text are     *)
(* the 0-based indices of the TypeScript source; At and Slice convert.     *)
(* extractTableNames is modelled step by step: scrub, build the keyword    *)
(* list, compile the pattern, one action per iteration of the regex.exec   *)
(* loop, then the classification.  The SqlTableExtractor of parser.ts,     *)
(* whose catalog is a Set of names, differs in the resolution and in the   *)
(* classification only; options.flatSet selects it.                        *)
(***************************************************************************)
EXTENDS Integers, Sequences, FiniteSets, TLC

VARIABLES
  entry,            \* which static method the caller invoked
  sql,              \* the caller's query text
  options,          \* the caller's options bundle
  pc,               \* position inside the call
  cleanSql,         \* const cleanSql
  allKeywords,      \* let allKeywords
  regex,            \* the compiled RegExp: its alternatives and its lastIndex
  match,            \* let match
  extractedTables,  \* the Set<string>, in insertion order
  captures,         \* one record per completed iteration of the exec loop
  result,           \* the TableExtractionResult that extractTableNames returns
  returned,         \* what getTableNamesSimple returns
  defaultSqlKeywords,  \* the module-level array defaultSqlKeywords.default
  history           \* the calls that ended before this one, and how they ended

vars == <<entry, sql, options, pc, cleanSql, allKeywords, regex, match,
          extractedTables, captures, result, returned, defaultSqlKeywords,
          history>>

----------------------------------------------------------------------------
(* Characters and strings                                                  *)

\* sql[i] past the end of the string
Undefined == "undefined"

\* the grave accent U+0060, which a TLA+ string cannot hold
Backtick == "U+0060"

At(s, i) == IF i >= 0 /\ i < Len(s) THEN s[i + 1] ELSE Undefined

\* s.slice(from, to) for 0 <= from, to
Slice(s, from, to) ==
  IF from >= to \/ from >= Len(s) THEN <<>>
  ELSE SubSeq(s, from + 1, IF to > Len(s) THEN Len(s) ELSE to)

SliceFrom(s, from) == Slice(s, from, Len(s))

Range(s) == {s[k] : k \in 1..Len(s)}

LowerLetters ==
  {"a", "b", "c", "d", "e", "f", "g", "h", "i", "j", "k", "l", "m",
   "n", "o", "p", "q", "r", "s", "t", "u", "v", "w", "x", "y", "z"}

UpperLetters ==
  {"A", "B", "C", "D", "E", "F", "G", "H", "I", "J", "K", "L", "M",
   "N", "O", "P", "Q", "R", "S", "T", "U", "V", "W", "X", "Y", "Z"}

DigitChars == {"0", "1", "2", "3", "4", "5", "6", "7", "8", "9"}

UpperOf ==
  "a" :> "A" @@ "b" :> "B" @@ "c" :> "C" @@ "d" :> "D" @@ "e" :> "E" @@
  "f" :> "F" @@ "g" :> "G" @@ "h" :> "H" @@ "i" :> "I" @@ "j" :> "J" @@
  "k" :> "K" @@ "l" :> "L" @@ "m" :> "M" @@ "n" :> "N" @@ "o" :> "O" @@
  "p" :> "P" @@ "q" :> "Q" @@ "r" :> "R" @@ "s" :> "S" @@ "t" :> "T" @@
  "u" :> "U" @@ "v" :> "V" @@ "w" :> "W" @@ "x" :> "X" @@ "y" :> "Y" @@
  "z" :> "Z"

\* String.prototype.toUpperCase, one character
UpperChar(c) == IF c \in LowerLetters THEN UpperOf[c] ELSE c

ToUpperCase(s) == [k \in 1..Len(s) |-> UpperChar(s[k])]

\* the class \s of the pattern facility
IsSpace(c) == c \in {" ", "\n", "\t"}

\* the class \w
IsWordChar(c) == c \in LowerLetters \cup UpperLetters \cup DigitChars \cup {"_"}

\* the class [\w@#]
IsIdentChar(c) == IsWordChar(c) \/ c \in {"@", "#"}

\* String.prototype.includes
Includes(s, sub) ==
  \E k \in 0..(Len(s) - Len(sub)) : Slice(s, k, k + Len(sub)) = sub

----------------------------------------------------------------------------
(* removeCommentsAndStrings                                                *)

\* result.slice(-10)
BeforeQuoteWindow == 10

\* mutant: only the two dashes are skipped
SkipLineCommentMarker(s, i) == i + 2

RECURSIVE SkipLineComment(_, _)
SkipLineComment(s, i) ==
  IF i < Len(s) /\ At(s, i) # "\n" THEN SkipLineComment(s, i + 1) ELSE i

RECURSIVE SkipBlockComment(_, _)
SkipBlockComment(s, i) ==
  IF i < Len(s) - 1
  THEN IF At(s, i) = "*" /\ At(s, i + 1) = "/"
       THEN i + 2
       ELSE SkipBlockComment(s, i + 1)
  ELSE i

\* mutant: the body of the literal is not consumed
SkipSingleQuotedNothing(s, i) == i

RECURSIVE SkipSingleQuoted(_, _)
SkipSingleQuoted(s, i) ==
  IF i < Len(s)
  THEN IF At(s, i) = "'"
       THEN IF At(s, i + 1) = "'"
            THEN SkipSingleQuoted(s, i + 2)
            ELSE i + 1
       ELSE SkipSingleQuoted(s, i + 1)
  ELSE i

RECURSIVE SkipDoubleQuoted(_, _)
SkipDoubleQuoted(s, i) ==
  IF i < Len(s)
  THEN IF At(s, i) = "\"" THEN i + 1 ELSE SkipDoubleQuoted(s, i + 1)
  ELSE i

\* whether s ends with one of = ! < > and then only whitespace
RECURSIVE EndsWithComparison(_)
EndsWithComparison(s) ==
  IF s = <<>> THEN FALSE
  ELSE LET c == s[Len(s)]
       IN  IF c \in {"=", "!", "<", ">"} THEN TRUE
           ELSE IF IsSpace(c) THEN EndsWithComparison(SubSeq(s, 1, Len(s) - 1))
           ELSE FALSE

IsStringLiteral(res) ==
  LET beforeQuote ==
        IF Len(res) > BeforeQuoteWindow
        THEN SubSeq(res, Len(res) - BeforeQuoteWindow + 1, Len(res))
        ELSE res
  IN  EndsWithComparison(beforeQuote)

\* mutant: a space is left where the comment was
AfterCommentSpace(res) == Append(res, " ")

\* a comment ends at `continue` with nothing added to result
AfterComment(res) == res

\* one iteration of the while loop: the new read index, the new output buffer,
\* and the branch that was taken
ScrubStep(s, i, res) ==
  LET char == At(s, i)
      nextChar == At(s, i + 1)
  IN  IF char = "-" /\ nextChar = "-"
      THEN [i |-> SkipLineComment(s, i), result |-> AfterComment(res),
            branch |-> "lineComment"]
      ELSE IF char = "/" /\ nextChar = "*"
      THEN [i |-> SkipBlockComment(s, i + 2), result |-> AfterComment(res),
            branch |-> "blockComment"]
      ELSE IF char = "'"
      THEN [i |-> SkipSingleQuoted(s, i + 1), result |-> Append(res, " "),
            branch |-> "singleQuoted"]
      ELSE IF char = "\""
      THEN IF IsStringLiteral(res)
           THEN [i |-> SkipDoubleQuoted(s, i + 1), result |-> Append(res, " "),
                 branch |-> "doubleQuotedLiteral"]
           ELSE [i |-> i + 1, result |-> Append(res, char),
                 branch |-> "doubleQuoteKept"]
      ELSE [i |-> i + 1, result |-> Append(res, char), branch |-> "regular"]

RECURSIVE ScrubLoop(_, _, _)
ScrubLoop(s, i, res) ==
  IF i < Len(s)
  THEN LET st == ScrubStep(s, i, res) IN ScrubLoop(s, st.i, st.result)
  ELSE res

\* every run of whitespace replaced by one space
RECURSIVE CollapseWhitespace(_, _)
CollapseWhitespace(s, k) ==
  IF k > Len(s) THEN <<>>
  ELSE IF IsSpace(s[k])
       THEN IF k > 1 /\ IsSpace(s[k - 1])
            THEN CollapseWhitespace(s, k + 1)
            ELSE <<" ">> \o CollapseWhitespace(s, k + 1)
       ELSE <<s[k]>> \o CollapseWhitespace(s, k + 1)

\* mutant: the result is not trimmed
TrimNothing(s) == s

\* .trim()
RECURSIVE Trim(_)
Trim(s) ==
  IF s = <<>> THEN s
  ELSE IF IsSpace(s[1]) THEN Trim(Tail(s))
  ELSE IF IsSpace(s[Len(s)]) THEN Trim(SubSeq(s, 1, Len(s) - 1))
  ELSE s

RemoveCommentsAndStrings(s) == Trim(CollapseWhitespace(ScrubLoop(s, 0, <<>>), 1))

----------------------------------------------------------------------------
(* The keyword list and the scanning pattern                               *)

\* mutant: a default keyword with an opening parenthesis of its own
DefaultKeywordsUnbalanced ==
  << <<"F", "R", "O", "M">>,
     <<"J", "O", "I", "N">>,
     <<"V", "A", "L", "U", "E", "S", " ", "(">> >>

DefaultKeywords ==
  << <<"F", "R", "O", "M">>,
     <<"J", "O", "I", "N">>,
     <<"I", "N", "N", "E", "R", " ", "J", "O", "I", "N">>,
     <<"L", "E", "F", "T", " ", "J", "O", "I", "N">>,
     <<"R", "I", "G", "H", "T", " ", "J", "O", "I", "N">>,
     <<"F", "U", "L", "L", " ", "J", "O", "I", "N">>,
     <<"C", "R", "O", "S", "S", " ", "J", "O", "I", "N">>,
     <<"O", "U", "T", "E", "R", " ", "J", "O", "I", "N">>,
     <<"I", "N", "T", "O">>,
     <<"U", "P", "D", "A", "T", "E">>,
     <<"D", "E", "L", "E", "T", "E", " ", "F", "R", "O", "M">>,
     <<"I", "N", "S", "E", "R", "T", " ", "I", "N", "T", "O">>,
     <<"R", "E", "P", "L", "A", "C", "E", " ", "I", "N", "T", "O">>,
     <<"U", "P", "S", "E", "R", "T", " ", "I", "N", "T", "O">>,
     <<"M", "E", "R", "G", "E", " ", "I", "N", "T", "O">>,
     <<"U", "S", "I", "N", "G">> >>

\* Array.from(new Set(list)): first occurrences, in order
\* mutant: duplicates are not removed
DedupNone(list) == list

RECURSIVE Dedup(_)
Dedup(list) ==
  IF list = <<>> THEN <<>>
  ELSE LET front == Dedup(SubSeq(list, 1, Len(list) - 1))
           last == list[Len(list)]
       IN  IF last \in Range(front) THEN front ELSE Append(front, last)

\* mutant: if (keywords), without the test of its length
KeywordsPresent(opts) == opts.hasKeywords

\* if (keywords && keywords.length > 0)
KeywordsGiven(opts) == opts.hasKeywords /\ Len(opts.keywords) > 0

EffectiveKeywords(opts) ==
  Dedup((IF KeywordsGiven(opts) THEN opts.keywords ELSE defaultSqlKeywords)
        \o opts.customKeywords)

\* The pattern facility, for keyword text over letters, digits, "_", space and
\* the operators | * ( ): | separates alternatives, * repeats the character
\* before it, every other character matches itself (case-insensitively).
\* A pattern holding a group that compiles is outside this model.
\* keywordPattern is allKeywords.join('|'), so its alternatives are those of
\* the first keyword, then those of the second, and so on.
RECURSIVE SplitAlternatives(_, _)
SplitAlternatives(keyword, cur) ==
  IF keyword = <<>> THEN <<cur>>
  ELSE IF keyword[1] = "|"
       THEN <<cur>> \o SplitAlternatives(Tail(keyword), <<>>)
       ELSE SplitAlternatives(Tail(keyword), Append(cur, keyword[1]))

RECURSIVE PatternAlternatives(_)
PatternAlternatives(keywords) ==
  IF keywords = <<>> THEN <<>>
  ELSE SplitAlternatives(keywords[1], <<>>) \o PatternAlternatives(Tail(keywords))

\* the group depth after the text, read from the given depth; -1 once a ")"
\* has nothing to close
RECURSIVE GroupDepth(_, _)
GroupDepth(text, depth) ==
  IF depth < 0 THEN -1
  ELSE IF text = <<>> THEN depth
  ELSE IF text[1] = "(" THEN GroupDepth(Tail(text), depth + 1)
  ELSE IF text[1] = ")" THEN GroupDepth(Tail(text), depth - 1)
  ELSE GroupDepth(Tail(text), depth)

\* the same over keywordPattern, keyword by keyword (the | between two
\* keywords opens and closes nothing)
RECURSIVE PatternDepth(_, _)
PatternDepth(keywords, depth) ==
  IF depth < 0 THEN -1
  ELSE IF keywords = <<>> THEN depth
  ELSE PatternDepth(Tail(keywords), GroupDepth(keywords[1], depth))

\* a * with nothing to repeat
DanglingStar(alt) ==
  \E k \in 1..Len(alt) :
    alt[k] = "*" /\ (k = 1 \/ alt[k - 1] \in {"*", "("})

\* whether new RegExp(...) returns; otherwise it throws a SyntaxError.
\* The pattern is read inside the (?: ... ) that the source wraps around it.
PatternCompiles(keywords) ==
  /\ PatternDepth(keywords, 1) = 1
  /\ \A a \in Range(PatternAlternatives(keywords)) : ~DanglingStar(a)

\* the compiled alternatives, in the order in which the matcher tries them
CompileAlternatives(keywords) == PatternAlternatives(keywords)

\* the i flag
CharEq(c, d) == UpperChar(c) = UpperChar(d)

RECURSIVE RunOfChar(_, _, _)
RunOfChar(text, p, ch) ==
  IF p < Len(text) /\ CharEq(At(text, p), ch) THEN 1 + RunOfChar(text, p + 1, ch) ELSE 0

\* the positions at which one alternative can end when it starts at p, in the
\* order in which the backtracking matcher tries them; k is the place in the
\* alternative, and a character followed by * is repeated, longest run first
RECURSIVE MatchItems(_, _, _, _)
RECURSIVE StarEnds(_, _, _, _, _)
MatchItems(alt, k, text, p) ==
  IF k > Len(alt) THEN <<p>>
  ELSE IF k < Len(alt) /\ alt[k + 1] = "*"
       THEN StarEnds(alt, k, text, p, RunOfChar(text, p, alt[k]))
       ELSE IF p < Len(text) /\ CharEq(At(text, p), alt[k])
            THEN MatchItems(alt, k + 1, text, p + 1)
            ELSE <<>>

StarEnds(alt, k, text, p, n) ==
  IF n < 0 THEN <<>>
  ELSE MatchItems(alt, k + 2, text, p + n) \o StarEnds(alt, k, text, p, n - 1)

RECURSIVE FindChar(_, _, _)
FindChar(text, i, c) ==
  IF i >= Len(text) THEN -1
  ELSE IF At(text, i) = c THEN i ELSE FindChar(text, i + 1, c)

RECURSIVE IdentRunEnd(_, _)
IdentRunEnd(text, p) ==
  IF p < Len(text) /\ IsIdentChar(At(text, p)) THEN IdentRunEnd(text, p + 1) ELSE p

RECURSIVE SpaceRunEnd(_, _)
SpaceRunEnd(text, p) ==
  IF p < Len(text) /\ IsSpace(At(text, p)) THEN SpaceRunEnd(text, p + 1) ELSE p

\* one quoted segment (brackets, double quotes or grave accents) whose opening
\* delimiter is at p: at least one character that is not the closing
\* delimiter, then the closing delimiter
QuotedPartEnd(text, p, close) ==
  LET q == FindChar(text, p + 1, close)
  IN  IF q > p + 1 THEN q + 1 ELSE -1

\* one segment of the identifier at p, quoted or bare: where it ends, or -1
IdentPartEnd(text, p) ==
  LET c == At(text, p)
  IN  IF c = "[" THEN QuotedPartEnd(text, p, "]")
      ELSE IF c = "\"" THEN QuotedPartEnd(text, p, "\"")
      ELSE IF c = Backtick THEN QuotedPartEnd(text, p, Backtick)
      ELSE IF IsIdentChar(c) THEN IdentRunEnd(text, p)
      ELSE -1

\* the further segments, each after a dot, from e
RECURSIVE MoreParts(_, _)
MoreParts(text, e) ==
  IF At(text, e) = "."
  THEN LET e2 == IdentPartEnd(text, e + 1)
       IN  IF e2 # -1 THEN MoreParts(text, e2) ELSE e
  ELSE e

IdentEnd(text, p) ==
  LET e1 == IdentPartEnd(text, p)
  IN  IF e1 = -1 THEN -1 ELSE MoreParts(text, e1)

NoMatch == [ok |-> FALSE]

\* \s+ then the identifier, after a keyword that ended at e: the whitespace run
\* is tried longest first, down to one character
RECURSIVE TailFrom(_, _, _)
TailFrom(text, e, j) ==
  IF j <= e THEN NoMatch
  ELSE LET end == IdentEnd(text, j)
       IN  IF end # -1 THEN [ok |-> TRUE, identStart |-> j, end |-> end]
           ELSE TailFrom(text, e, j - 1)

TailMatch(text, e) == TailFrom(text, e, SpaceRunEnd(text, e))

RECURSIVE FirstGoodEnd(_, _, _, _)
FirstGoodEnd(text, s, ends, k) ==
  IF k > Len(ends) THEN NoMatch
  ELSE LET t == TailMatch(text, ends[k])
       IN  IF t.ok
           THEN [ok |-> TRUE, index |-> s, kwEnd |-> ends[k],
                 identStart |-> t.identStart, end |-> t.end]
           ELSE FirstGoodEnd(text, s, ends, k + 1)

\* the whole pattern anchored at s: the alternatives in their order
RECURSIVE MatchAt(_, _, _, _)
MatchAt(alts, text, s, a) ==
  IF a > Len(alts) THEN NoMatch
  ELSE LET m == FirstGoodEnd(text, s, MatchItems(alts[a], 1, text, s), 1)
       IN  IF m.ok THEN m ELSE MatchAt(alts, text, s, a + 1)

\* the characters, upper-cased, with which a match of some alternative must
\* start; AnyStart when an alternative can match without consuming its first
\* character
AnyStart == "any"

StartChars(alts) ==
  IF \E a \in 1..Len(alts) :
       alts[a] = <<>> \/ (Len(alts[a]) > 1 /\ alts[a][2] = "*")
  THEN {AnyStart}
  ELSE {UpperChar(alts[a][1]) : a \in 1..Len(alts)}

\* the scan over the start positions from `from`; a position whose character
\* starts no alternative is passed over
RECURSIVE ExecFrom(_, _, _, _)
ExecFrom(alts, starts, text, from) ==
  IF from > Len(text) THEN NoMatch
  ELSE IF AnyStart \in starts \/ UpperChar(At(text, from)) \in starts
       THEN LET m == MatchAt(alts, text, from, 1)
            IN  IF m.ok THEN m ELSE ExecFrom(alts, starts, text, from + 1)
       ELSE ExecFrom(alts, starts, text, from + 1)

\* mutant: a keyword matches at the start of a word only, as with \b before it
RECURSIVE ExecAtWordStart(_, _, _)
ExecAtWordStart(alts, text, from) ==
  IF from > Len(text) THEN NoMatch
  ELSE IF IsWordChar(At(text, from - 1))
       THEN ExecAtWordStart(alts, text, from + 1)
       ELSE LET m == MatchAt(alts, text, from, 1)
            IN  IF m.ok THEN m ELSE ExecAtWordStart(alts, text, from + 1)

\* regex.exec(text) with the g flag: the leftmost match at or after lastIndex
Exec(alts, text, from) == ExecFrom(alts, StartChars(alts), text, from)

\* mutant: lastIndex is left at the start of the match
LastIndexAtMatch(m) == IF m.ok THEN m.index ELSE 0

\* mutant: the scan resumes after the keyword and its whitespace
LastIndexAfterKeyword(m) == IF m.ok THEN m.identStart ELSE 0

\* the g flag: exec leaves lastIndex at the end of match[0], which is the end
\* of the captured identifier, and at 0 when it finds nothing
LastIndexAfter(m) == IF m.ok THEN m.end ELSE 0

\* group 1 of the second pattern, the keyword alternatives then whitespace,
\* anchored at the start of match[0]
RECURSIVE FirstSpacedEnd(_, _, _)
FirstSpacedEnd(m0, ends, k) ==
  IF k > Len(ends) THEN NoMatch
  ELSE IF IsSpace(At(m0, ends[k]))
       THEN [ok |-> TRUE, keyword |-> Slice(m0, 0, ends[k])]
       ELSE FirstSpacedEnd(m0, ends, k + 1)

RECURSIVE KeywordMatch(_, _, _)
KeywordMatch(alts, m0, a) ==
  IF a > Len(alts) THEN NoMatch
  ELSE LET m == FirstSpacedEnd(m0, MatchItems(alts[a], 1, m0, 0), 1)
       IN  IF m.ok THEN m ELSE KeywordMatch(alts, m0, a + 1)

\* whether remainingText starts with optional whitespace and "("
IsFunction(remainingText) == At(remainingText, SpaceRunEnd(remainingText, 0)) = "("

\* mutant: the USING context is forgotten
IsFunctionContextNoUsing(keyword) ==
  \/ keyword = <<"F", "R", "O", "M">>
  \/ Includes(keyword, <<"J", "O", "I", "N">>)

IsFunctionContext(keyword) ==
  \/ keyword = <<"F", "R", "O", "M">>
  \/ Includes(keyword, <<"J", "O", "I", "N">>)
  \/ keyword = <<"U", "S", "I", "N", "G">>

----------------------------------------------------------------------------
(* Cleaning, resolution and classification                                 *)

\* .replace of one quoting style: every leftmost span of an opening delimiter,
\* at least one character that is not the closing delimiter, and the closing
\* delimiter is replaced by its inner text; k is the scan position
RECURSIVE StripPairs(_, _, _, _)
StripPairs(s, k, open, close) ==
  IF k >= Len(s) THEN <<>>
  ELSE IF At(s, k) = open
       THEN LET q == FindChar(s, k + 1, close)
            IN  IF q > k + 1
                THEN Slice(s, k + 1, q) \o StripPairs(s, q + 1, open, close)
                ELSE <<At(s, k)>> \o StripPairs(s, k + 1, open, close)
       ELSE <<At(s, k)>> \o StripPairs(s, k + 1, open, close)

\* the three replaces, in the order of the source
CleanTableName(tableIdentifier) ==
  LET noBrackets == StripPairs(tableIdentifier, 0, "[", "]")
      noQuotes == StripPairs(noBrackets, 0, "\"", "\"")
  IN  StripPairs(noQuotes, 0, Backtick, Backtick)

RECURSIVE LastIndexOf(_, _, _)
LastIndexOf(s, c, k) ==
  IF k < 0 THEN -1
  ELSE IF At(s, k) = c THEN k ELSE LastIndexOf(s, c, k - 1)

\* tableName.includes('.') ? tableName.split('.').pop() : tableName
TableWithoutSchema(tableName) ==
  LET d == LastIndexOf(tableName, ".", Len(tableName) - 1)
  IN  IF d = -1 THEN tableName ELSE SliceFrom(tableName, d + 1)

\* mutant: an entry found by its table name gives its key
RECURSIVE ResolveLoopToKey(_, _, _)
ResolveLoopToKey(tableName, knownTables, k) ==
  IF k > Len(knownTables) THEN tableName
  ELSE LET e == knownTables[k]
       IN  IF e.key = tableName THEN e.fullyQualifiedName
           ELSE IF e.tableName = TableWithoutSchema(tableName) THEN e.key
           ELSE IF e.fullyQualifiedName = tableName THEN e.fullyQualifiedName
           ELSE ResolveLoopToKey(tableName, knownTables, k + 1)

\* the loop over the Map's entries, in iteration order, from entry k
RECURSIVE ResolveLoop(_, _, _)
ResolveLoop(tableName, knownTables, k) ==
  IF k > Len(knownTables) THEN tableName
  ELSE LET e == knownTables[k]
       IN  IF e.key = tableName THEN e.fullyQualifiedName
           ELSE IF e.tableName = TableWithoutSchema(tableName)
                THEN e.fullyQualifiedName
           ELSE IF e.fullyQualifiedName = tableName THEN e.fullyQualifiedName
           ELSE ResolveLoop(tableName, knownTables, k + 1)

\* mutant: the Map lookup by key before the loop is missing
ResolveTableNameLoopOnly(tableName, opts) ==
  IF ~opts.hasCatalog THEN tableName
  ELSE ResolveLoop(tableName, opts.knownTables, 1)

\* knownTables is the Map as the sequence of its entries; opts.hasCatalog is
\* whether the caller passed one
ResolveTableName(tableName, opts) ==
  IF ~opts.hasCatalog THEN tableName
  ELSE IF \E k \in 1..Len(opts.knownTables) : opts.knownTables[k].key = tableName
       THEN LET k == CHOOSE k \in 1..Len(opts.knownTables) :
                       opts.knownTables[k].key = tableName
            IN  opts.knownTables[k].fullyQualifiedName
       ELSE ResolveLoop(tableName, opts.knownTables, 1)

\* mutant: a name that is a fully qualified name of the catalog is not known
IsKnownTableNoFullName(tableName, knownTables) ==
  \E k \in 1..Len(knownTables) :
    \/ knownTables[k].key = tableName
    \/ knownTables[k].tableName = TableWithoutSchema(tableName)

IsKnownTable(tableName, knownTables) ==
  \E k \in 1..Len(knownTables) :
    \/ knownTables[k].key = tableName
    \/ knownTables[k].tableName = TableWithoutSchema(tableName)
    \/ knownTables[k].fullyQualifiedName = tableName

\* mutant: an array push, no membership test
SetAddPush(set, x) == Append(set, x)

\* mutant: a repeated name is moved to the end
SetAddMoveToEnd(set, x) == Append(SelectSeq(set, LAMBDA y : y # x), x)

\* Set.prototype.add on the insertion-ordered set
SetAdd(set, x) == IF x \in Range(set) THEN set ELSE Append(set, x)

RealTablesOf(allTables, knownTables) ==
  SelectSeq(allTables, LAMBDA t : IsKnownTable(t, knownTables))

\* mutant: only the Map's keys are consulted
FilteredCTEsByKey(allTables, knownTables) ==
  SelectSeq(allTables,
            LAMBDA t : \A k \in 1..Len(knownTables) : knownTables[k].key # t)

FilteredCTEsOf(allTables, knownTables) ==
  SelectSeq(allTables, LAMBDA t : ~IsKnownTable(t, knownTables))

\* mutant: the filterCTEs flag is not consulted
ShouldFilterAnyCatalog(opts) == opts.hasCatalog

\* if (filterCTEs && knownTables): a Map, even an empty one, is truthy
ShouldFilter(opts) == opts.filterCTEs /\ opts.hasCatalog

FilteredResult(allTables, knownTables) ==
  [allTables |-> allTables,
   realTables |-> RealTablesOf(allTables, knownTables),
   filteredCTEs |-> FilteredCTEsOf(allTables, knownTables)]

UnfilteredResult(allTables) ==
  [allTables |-> allTables, realTables |-> allTables, filteredCTEs |-> <<>>]

\* The SqlTableExtractor of parser.ts, whose knownTables is a Set<string>, here
\* the sequence of its members: opts.flatSet says that the call is to it.
\* mutant: a qualified name whose last part is a known name is cut down to it
FlatTableNameShortened(cleanTableName, opts) ==
  IF opts.hasCatalog /\ TableWithoutSchema(cleanTableName) \in Range(opts.knownTables)
  THEN TableWithoutSchema(cleanTableName)
  ELSE cleanTableName

\* extractedTables.add(cleanTableName): the name is added as it was cleaned
FlatTableName(cleanTableName, opts) == cleanTableName

\* knownTables.has(table) || knownTables.has(tableWithoutSchema)
FlatIsKnown(table, knownNames) ==
  \/ table \in Range(knownNames)
  \/ TableWithoutSchema(table) \in Range(knownNames)

FlatFilteredResult(allTables, knownNames) ==
  [allTables |-> allTables,
   realTables |-> SelectSeq(allTables, LAMBDA t : FlatIsKnown(t, knownNames)),
   filteredCTEs |-> SelectSeq(allTables, LAMBDA t : ~FlatIsKnown(t, knownNames))]

\* Step 4 of either class
ClassifiedResult(allTables, opts) ==
  IF opts.flatSet THEN FlatFilteredResult(allTables, opts.knownTables)
  ELSE FilteredResult(allTables, opts.knownTables)

\* the body of the exec loop for the match m: what it computes
\*   skipped: the iteration ends at `continue`
LoopBody(text, alts, m, opts) ==
  LET tableIdentifier == Slice(text, m.identStart, m.end)
      matched == Slice(text, m.index, m.end)
      isFunction == IsFunction(SliceFrom(text, m.end))
      keywordMatch == IF isFunction THEN KeywordMatch(alts, matched, 1) ELSE NoMatch
      keyword == IF keywordMatch.ok THEN ToUpperCase(keywordMatch.keyword) ELSE <<>>
      skipped == isFunction /\ keywordMatch.ok /\ IsFunctionContext(keyword)
      cleanTableName == CleanTableName(tableIdentifier)
  IN  [index |-> m.index,
       kwEnd |-> m.kwEnd,
       identStart |-> m.identStart,
       end |-> m.end,
       tableIdentifier |-> tableIdentifier,
       isFunction |-> isFunction,
       hasKeyword |-> keywordMatch.ok,
       keyword |-> keyword,
       skipped |-> skipped,
       cleanTableName |-> IF skipped THEN <<>> ELSE cleanTableName,
       resolvedName |-> IF skipped THEN <<>>
                        ELSE IF opts.flatSet
                        THEN FlatTableName(cleanTableName, opts)
                        ELSE ResolveTableName(cleanTableName, opts)]

\* the exec loop run to its end from lastIndex: the final extractedTables
RECURSIVE ScanLoop(_, _, _, _, _)
ScanLoop(text, alts, lastIndex, opts, extracted) ==
  LET m == Exec(alts, text, lastIndex)
  IN  IF ~m.ok THEN extracted
      ELSE LET b == LoopBody(text, alts, m, opts)
           IN  ScanLoop(text, alts, LastIndexAfter(m), opts,
                        IF b.skipped THEN extracted
                        ELSE SetAdd(extracted, b.resolvedName))

\* extractTableNames as a function of its arguments: whether it threw, and
\* the result it returned otherwise
ExtractTableNames(s, opts) ==
  LET text == RemoveCommentsAndStrings(s)
      keywords == EffectiveKeywords(opts)
  IN  IF ~PatternCompiles(keywords)
      THEN [threw |-> TRUE, result |-> UnfilteredResult(<<>>)]
      ELSE LET all == ScanLoop(text, CompileAlternatives(keywords), 0, opts, <<>>)
           IN  [threw |-> FALSE,
                result |-> IF ShouldFilter(opts)
                           THEN ClassifiedResult(all, opts)
                           ELSE UnfilteredResult(all)]

----------------------------------------------------------------------------
(* The calls                                                               *)

EmptyResult == UnfilteredResult(<<>>)

NoRegex == [alts |-> <<>>, lastIndex |-> 0]

\* a call has been made and nothing of it has run yet
Called(inputs) ==
  /\ \E inp \in inputs :
       /\ entry = inp.entry
       /\ sql = inp.sql
       /\ options = inp.options
  /\ pc = "start"
  /\ cleanSql = <<>>
  /\ allKeywords = <<>>
  /\ regex = NoRegex
  /\ match = NoMatch
  /\ extractedTables = <<>>
  /\ captures = <<>>
  /\ result = EmptyResult
  /\ returned = <<>>
  /\ defaultSqlKeywords = DefaultKeywords
  /\ history = <<>>

\* Step 1: const cleanSql = this.removeCommentsAndStrings(sql)
Scrub ==
  /\ pc = "start"
  /\ cleanSql' = RemoveCommentsAndStrings(sql)
  /\ pc' = "keywords"
  /\ UNCHANGED <<entry, sql, options, allKeywords, regex, match,
                 extractedTables, captures, result, returned,
                 defaultSqlKeywords, history>>

\* mutant: allKeywords.push(...customKeywords) on the array allKeywords names
AliasedAfterPush(aliased, customKeywords) == aliased \o customKeywords

\* allKeywords = [...allKeywords, ...customKeywords] builds a new array: the
\* array that allKeywords named until then is left as it was
AliasedAfterSpread(aliased, customKeywords) == aliased

\* Step 2: the keyword list.  allKeywords first names the caller's keywords
\* array or the module-level default array.
BuildKeywords ==
  /\ pc = "keywords"
  /\ allKeywords' = EffectiveKeywords(options)
  /\ IF KeywordsGiven(options)
     THEN /\ options' = [options EXCEPT !.keywords =
                           AliasedAfterSpread(options.keywords, options.customKeywords)]
          /\ UNCHANGED defaultSqlKeywords
     ELSE /\ defaultSqlKeywords' =
               AliasedAfterSpread(defaultSqlKeywords, options.customKeywords)
          /\ UNCHANGED options
  /\ pc' = "compile"
  /\ UNCHANGED <<entry, sql, cleanSql, regex, match,
                 extractedTables, captures, result, returned, history>>

\* Step 3: new RegExp(...) returns
NewRegExp ==
  /\ pc = "compile"
  /\ PatternCompiles(allKeywords)
  /\ regex' = [alts |-> CompileAlternatives(allKeywords),
               lastIndex |-> 0]
  /\ pc' = "exec"
  /\ UNCHANGED <<entry, sql, options, cleanSql, allKeywords, match,
                 extractedTables, captures, result, returned,
                 defaultSqlKeywords, history>>

\* Step 3: new RegExp(...) throws, and the call ends with the exception
ThrowSyntaxError ==
  /\ pc = "compile"
  /\ ~PatternCompiles(allKeywords)
  /\ pc' = "threw"
  /\ UNCHANGED <<entry, sql, options, cleanSql, allKeywords, regex, match,
                 extractedTables, captures, result, returned,
                 defaultSqlKeywords, history>>

\* the loop head: match = regex.exec(cleanSql)
RegexExec ==
  /\ pc = "exec"
  /\ LET m == Exec(regex.alts, cleanSql, regex.lastIndex)
     IN  /\ match' = m
         /\ regex' = [regex EXCEPT !.lastIndex = LastIndexAfter(m)]
         /\ pc' = IF m.ok THEN "body" ELSE "classify"
  /\ UNCHANGED <<entry, sql, options, cleanSql, allKeywords,
                 extractedTables, captures, result, returned,
                 defaultSqlKeywords, history>>

\* the loop body reaches `continue`: a function call in a FROM/JOIN/USING context
SkipFunction ==
  /\ pc = "body"
  /\ LET b == LoopBody(cleanSql, regex.alts, match, options)
     IN  /\ b.skipped
         /\ captures' = Append(captures, b)
  /\ pc' = "exec"
  /\ UNCHANGED <<entry, sql, options, cleanSql, allKeywords, regex, match,
                 extractedTables, result, returned,
                 defaultSqlKeywords, history>>

\* the loop body reaches extractedTables.add(resolvedName)
AddTable ==
  /\ pc = "body"
  /\ LET b == LoopBody(cleanSql, regex.alts, match, options)
     IN  /\ ~b.skipped
         /\ captures' = Append(captures, b)
         /\ extractedTables' = SetAdd(extractedTables, b.resolvedName)
  /\ pc' = "exec"
  /\ UNCHANGED <<entry, sql, options, cleanSql, allKeywords, regex, match,
                 result, returned,
                 defaultSqlKeywords, history>>

\* Step 4, filterCTEs && knownTables
Classify ==
  /\ pc = "classify"
  /\ ShouldFilter(options)
  /\ result' = ClassifiedResult(extractedTables, options)
  /\ pc' = "done"
  /\ UNCHANGED <<entry, sql, options, cleanSql, allKeywords, regex, match,
                 extractedTables, captures, returned,
                 defaultSqlKeywords, history>>

\* the final return of extractTableNames
ReturnUnfiltered ==
  /\ pc = "classify"
  /\ ~ShouldFilter(options)
  /\ result' = UnfilteredResult(extractedTables)
  /\ pc' = "done"
  /\ UNCHANGED <<entry, sql, options, cleanSql, allKeywords, regex, match,
                 extractedTables, captures, returned,
                 defaultSqlKeywords, history>>

\* getTableNamesSimple returns, after its call of extractTableNames has
ReturnSimple ==
  /\ pc = "done"
  /\ entry = "getTableNamesSimple"
  /\ returned' = IF options.hasCatalog THEN result.realTables ELSE result.allTables
  /\ pc' = "returned"
  /\ UNCHANGED <<entry, sql, options, cleanSql, allKeywords, regex, match,
                 extractedTables, captures, result,
                 defaultSqlKeywords, history>>

----------------------------------------------------------------------------
(* The calls that are checked                                              *)

\* the options bundle: knownTables is the Map's entries in iteration order;
\* a keywords option is present when the list given here is not empty
Options(hasCatalog, knownTables, filterCTEs, keywords, customKeywords) ==
  [hasCatalog |-> hasCatalog, knownTables |-> knownTables,
   filterCTEs |-> filterCTEs, hasKeywords |-> keywords # <<>>,
   keywords |-> keywords, customKeywords |-> customKeywords,
   flatSet |-> FALSE]

\* the options bundle of parser.ts: knownTables is the members of the Set
FlatOptions(hasCatalog, knownNames, filterCTEs, keywords, customKeywords) ==
  [Options(hasCatalog, knownNames, filterCTEs, keywords, customKeywords)
     EXCEPT !.flatSet = TRUE]

\* opts with the keywords option present and empty: keywords: []
WithEmptyKeywords(opts) == [opts EXCEPT !.hasKeywords = TRUE, !.keywords = <<>>]

Entry(key, tableName, fullyQualifiedName) ==
  [key |-> key, tableName |-> tableName,
   fullyQualifiedName |-> fullyQualifiedName]

ExtractCall(s, opts) == [entry |-> "extractTableNames", sql |-> s, options |-> opts]

\* mutant: the catalog is passed on without filterCTEs
SimpleCallUnfiltered(s, hasCatalog, knownTables) ==
  [entry |-> "getTableNamesSimple", sql |-> s,
   options |-> Options(hasCatalog, knownTables, FALSE, <<>>, <<>>)]

\* getTableNamesSimple(sql, knownTables) calls extractTableNames with
\* { knownTables, filterCTEs: !!knownTables }
SimpleCall(s, hasCatalog, knownTables) ==
  [entry |-> "getTableNamesSimple", sql |-> s,
   options |-> Options(hasCatalog, knownTables, hasCatalog, <<>>, <<>>)]

RECURSIVE Concat(_)
Concat(pieces) ==
  IF pieces = <<>> THEN <<>> ELSE pieces[1] \o Concat(Tail(pieces))

\* every text made of at most n pieces
TextsOf(pieces, n) ==
  {Concat(ps) : ps \in UNION {[1..k -> pieces] : k \in 0..n}}

\* the longest query, in pieces
MaxPieces == 3

NameA == <<"a">>
NameB == <<"b">>
NameSA == <<"s", ".", "a">>
NameTA == <<"t", ".", "a">>
NameSB == <<"s", ".", "b">>

QueryPieces ==
  { <<"F", "R", "O", "M", " ", "a", " ">>,
    <<"j", "o", "i", "n", " ", "s", ".", "a", " ">>,
    <<"I", "N", "T", "O", " ", "t", ".", "a", " ">>,
    <<"c", "r", "o", "s", "s", " ", "a", "p", "p", "l", "y", " ", "A", " ">>,
    <<"D", "E", "L", "E", "T", "E", " ", "F", "R", "O", "M", " ", "b", " ">>,
    <<"U", "S", "I", "N", "G", " ", "c", "(">>,
    <<"(">> }

\* a: the key a names the table s.a
CatalogA == <<Entry(NameA, NameA, NameSA)>>

\* two entries with the bare name a; b is known by its key
CatalogTwo ==
  <<Entry(NameTA, NameA, NameTA), Entry(NameSA, NameA, NameSA),
    Entry(NameB, NameB, NameSB)>>

KeywordsLower ==
  << <<"j", "o", "i", "n">>, <<"i", "n", "t", "o">> >>

KeywordsCustom ==
  << <<"C", "R", "O", "S", "S", " ", "A", "P", "P", "L", "Y">>,
     <<"D", "E", "L", "E", "T", "E", " ", "F", "R", "O", "M">>,
     <<"j", "o", "i", "n">> >>

KeywordsBad == << <<"F", "R", "O", "M">>, <<"(">> >>

OptionCases ==
  { Options(FALSE, <<>>, FALSE, <<>>, <<>>),
    Options(FALSE, <<>>, TRUE, <<>>, <<>>),
    Options(TRUE, CatalogA, FALSE, <<>>, <<>>),
    Options(TRUE, CatalogTwo, TRUE, <<>>, <<>>),
    Options(TRUE, <<>>, TRUE, <<>>, <<>>),
    Options(TRUE, CatalogTwo, TRUE, KeywordsLower, KeywordsCustom) }

\* calls that between them reach every step of both methods
SmokeCalls ==
  LET q == <<"F", "R", "O", "M", " ", "a", " ", "J", "O", "I", "N", " ", "f", "(">>
  IN  { ExtractCall(q, Options(FALSE, <<>>, FALSE, KeywordsBad, <<>>)),
        ExtractCall(q, Options(TRUE, CatalogA, TRUE, <<>>, <<>>)),
        SimpleCall(q, TRUE, CatalogA),
        SimpleCall(q, FALSE, <<>>) }

\* the calls a caller makes one after the other, at most MaxCalls of them
MaxCalls == 3

SessionCalls ==
  SmokeCalls
  \cup { ExtractCall(<<"F", "R", "O", "M", " ", "a", " ", "c", "r", "o", "s", "s",
                       " ", "a", "p", "p", "l", "y", " ", "A">>, o) :
           o \in { Options(FALSE, <<>>, FALSE, <<>>, KeywordsCustom),
                   Options(TRUE, CatalogTwo, TRUE, KeywordsLower, KeywordsCustom) } }

\* the call in progress, as the caller made it
CurrentCall == [entry |-> entry, sql |-> sql, options |-> options]

\* the call has ended: with an exception, or with a value
Ended ==
  \/ pc = "threw"
  \/ pc = "returned"
  \/ pc = "done" /\ entry = "extractTableNames"

Outcome == [threw |-> pc = "threw", result |-> result, returned |-> returned]

\* mutant: the Set is kept from one call to the next
NewSetKept(previous) == previous

\* const extractedTables = new Set<string>(): a new, empty Set in every call
NewSet(previous) == <<>>

\* The caller makes another call: every local of the method is new
Call ==
  /\ Ended
  /\ Len(history) + 1 < MaxCalls
  /\ CurrentCall \in SessionCalls
  /\ history' = Append(history, [call |-> CurrentCall, outcome |-> Outcome])
  /\ \E inp \in SessionCalls :
       /\ entry' = inp.entry
       /\ sql' = inp.sql
       /\ options' = inp.options
  /\ pc' = "start"
  /\ cleanSql' = <<>>
  /\ allKeywords' = <<>>
  /\ regex' = NoRegex
  /\ match' = NoMatch
  /\ extractedTables' = NewSet(extractedTables)
  /\ captures' = <<>>
  /\ result' = EmptyResult
  /\ returned' = <<>>
  /\ UNCHANGED defaultSqlKeywords

Next ==
  \/ Scrub
  \/ BuildKeywords
  \/ NewRegExp
  \/ ThrowSyntaxError
  \/ RegexExec
  \/ SkipFunction
  \/ AddTable
  \/ Classify
  \/ ReturnUnfiltered
  \/ ReturnSimple
  \/ Call

Calls ==
  {ExtractCall(s, o) : s \in TextsOf(QueryPieces, MaxPieces), o \in OptionCases}
  \cup SmokeCalls

Init == Called(Calls)

Spec == Init /\ [][Next]_vars

\* Queries made of quotes, comment markers and keywords, closed or not
LexicalPieces ==
  { <<"F", "R", "O", "M", " ", "a", " ">>,
     <<"F", "R", "O", "M">>,
     <<"'">>,
     <<"\"">>,
     <<"=", " ", "\"">>,
     <<"[">>,
     <<Backtick>>,
     <<"-", "-">>,
     <<"/", "*">>,
     <<"\n">> }

LexicalCalls ==
  {ExtractCall(s, Options(FALSE, <<>>, FALSE, <<>>, <<>>)) :
     s \in TextsOf(LexicalPieces, MaxPieces)}
  \cup {SimpleCall(s, TRUE, CatalogA) : s \in TextsOf(LexicalPieces, MaxPieces)}
  \cup SmokeCalls

InitLexical == Called(LexicalCalls)

SpecLexical == InitLexical /\ [][Next]_vars

\* Catalogs: every Map of at most MaxEntries entries over a few names
MaxEntries == 2

NameD == <<"d">>

CatalogNames == {NameA, NameSA, NameTA}

Entries ==
  {Entry(k, t, f) : k \in CatalogNames, t \in {NameA, NameD}, f \in {NameSA, NameTA}}

DistinctKeys(cat) ==
  \A i, j \in 1..Len(cat) : i # j => cat[i].key # cat[j].key

Catalogs ==
  {cat \in UNION {[1..n -> Entries] : n \in 0..MaxEntries} : DistinctKeys(cat)}

From == <<"F", "R", "O", "M", " ">>

Join == <<" ", "J", "O", "I", "N", " ">>

CatalogTexts ==
  {From \o n : n \in CatalogNames \cup {NameB}}
  \cup {From \o NameA \o Join \o NameSA, From \o NameB \o Join \o NameTA}

CatalogCalls ==
  {ExtractCall(s, Options(TRUE, cat, f, <<>>, <<>>)) :
     s \in CatalogTexts, cat \in Catalogs, f \in BOOLEAN}
  \cup SmokeCalls

InitCatalog == Called(CatalogCalls)

SpecCatalog == InitCatalog /\ [][Next]_vars

\* Quoted identifiers: FROM and one quoted segment of at most MaxInner
\* characters
MaxInner == 3

InnerChars == {"a", " ", ".", "[", "]", "\"", Backtick, "'"}

Closing(open) == IF open = "[" THEN "]" ELSE open

Quoted(open, t) == From \o <<open>> \o t \o <<Closing(open)>>

InnerTexts(open) ==
  {t \in UNION {[1..n -> InnerChars] : n \in 1..MaxInner} :
     \A k \in 1..Len(t) : t[k] # Closing(open)}

QuotedCalls ==
  {ExtractCall(Quoted(open, t), Options(FALSE, <<>>, FALSE, <<>>, <<>>)) :
     <<open, t>> \in UNION {{<<o, t>> : t \in InnerTexts(o)} : o \in {"[", "\"", Backtick}}}
  \cup SmokeCalls

InitQuoted == Called(QuotedCalls)

SpecQuoted == InitQuoted /\ [][Next]_vars

\* Queries made of comment markers, blanks and one keyword with its table
ScrubPieces ==
  { <<"F", "R", "O", "M", " ", "a", " ">>,
    <<"F", "R", "O", "M", " ">>,
    <<"a">>,
    <<"\n">>,
    <<"-">>,
    <<"-", "-">>,
    <<"/", "*">>,
    <<"*", "/">>,
    <<"/", "*", "*", "/">> }

ScrubCalls ==
  {ExtractCall(s, Options(FALSE, <<>>, FALSE, <<>>, <<>>)) :
     s \in TextsOf(ScrubPieces, MaxPieces)}
  \cup {SimpleCall(s, c, IF c THEN CatalogA ELSE <<>>) :
          s \in TextsOf(ScrubPieces, MaxPieces), c \in BOOLEAN}
  \cup SmokeCalls

InitScrub == Called(ScrubCalls)

SpecScrub == InitScrub /\ [][Next]_vars

\* Keyword options: every keywords list of at most MaxKeywords keywords, the
\* empty list given explicitly, and at most one custom keyword
MaxKeywords == 2

Create == <<"C", "R", "E", "A", "T", "E">>

CreateTable == <<"C", "R", "E", "A", "T", "E", " ", "T", "A", "B", "L", "E">>

KeywordChoices ==
  {<<"F", "R", "O", "M">>, <<"f", "r", "o", "m">>, Create, CreateTable, <<"(">>}

KeywordLists == UNION {[1..n -> KeywordChoices] : n \in 0..MaxKeywords}

CustomLists == {<<>>} \cup {<<k>> : k \in KeywordChoices}

KeywordTexts ==
  { <<"C", "R", "E", "A", "T", "E", " ", "T", "A", "B", "L", "E", " ", "x", " ",
      "F", "R", "O", "M", " ", "a">>,
    <<"f", "r", "o", "m", " ", "a">> }

KeywordOptions ==
  {Options(FALSE, <<>>, FALSE, k, c) : k \in KeywordLists, c \in CustomLists}
  \cup {WithEmptyKeywords(Options(FALSE, <<>>, FALSE, <<>>, c)) : c \in CustomLists}

KeywordCalls ==
  {ExtractCall(s, o) : s \in KeywordTexts, o \in KeywordOptions} \cup SmokeCalls

InitKeywords == Called(KeywordCalls)

SpecKeywords == InitKeywords /\ [][Next]_vars

\* Sessions: up to MaxCalls calls, one after the other
InitSession == Called(SessionCalls)

SpecSession == InitSession /\ [][Next]_vars

\* A double quote after a run of whitespace: text that may end in a comparison
\* operator, at most MaxGap whitespace characters, then a double-quoted span,
\* closed or not
MaxGap == 11

GapChars == {" ", "\t"}

BeforeGap ==
  { <<>>, <<"x">>, <<"x", "=">>, <<"x", "!">>, <<"x", "<">>, <<"x", ">">>,
    <<"=", "x">> }

AfterGap ==
  { <<"\"", "F", "R", "O", "M", " ", "a", "\"">>,
    <<"\"", "F", "R", "O", "M", " ", "a">> }

GapTexts ==
  {b \o [k \in 1..n |-> c] \o a :
     b \in BeforeGap, n \in 0..MaxGap, c \in GapChars, a \in AfterGap}

GapCalls ==
  {ExtractCall(s, Options(FALSE, <<>>, FALSE, <<>>, <<>>)) : s \in GapTexts}
  \cup SmokeCalls

InitGap == Called(GapCalls)

SpecGap == InitGap /\ [][Next]_vars

\* Keyword phrases: keywords lists over a phrase that holds a star, on texts
\* with and without the star
SelectStarFrom ==
  <<"S", "E", "L", "E", "C", "T", " ", "*", " ", "F", "R", "O", "M">>

PhraseKeywords ==
  { <<SelectStarFrom>>,
    <<SelectStarFrom, <<"F", "R", "O", "M">> >>,
    << <<"F", "R", "O", "M">>, SelectStarFrom>>,
    << <<"I", "N", "T", "O">>, <<"U", "P", "D", "A", "T", "E">> >>,
    <<>> }

PhraseTexts ==
  { <<"S", "E", "L", "E", "C", "T", " ", "*", " ", "F", "R", "O", "M", " ", "t">>,
    <<"s", "e", "l", "e", "c", "t", " ", "*", " ", "f", "r", "o", "m", " ", "t">>,
    <<"S", "E", "L", "E", "C", "T", " ", "F", "R", "O", "M", " ", "t">>,
    <<"S", "E", "L", "E", "C", "T", " ", "*", "F", "R", "O", "M", " ", "t">>,
    <<"S", "E", "L", "E", "C", "T", " ", "a", " ", "F", "R", "O", "M", " ", "t">>,
    <<"U", "P", "D", "A", "T", "E", " ", "t", " ", "I", "N", "T", "O", " ", "u">>,
    <<"S", "E", "L", "E", "C", "T", " ", "*">> }

PhraseCalls ==
  {ExtractCall(s, Options(FALSE, <<>>, FALSE, k, c)) :
     s \in PhraseTexts, k \in PhraseKeywords, c \in {<<>>, <<SelectStarFrom>>}}
  \cup SmokeCalls

InitPhrases == Called(PhraseCalls)

SpecPhrases == InitPhrases /\ [][Next]_vars

\* Flat catalogs: every Set of at most MaxNames known names, on queries with
\* bare, qualified and quoted names
MaxNames == 2

KnownNames == {NameA, NameSA, NameB, NameTA}

NameSets ==
  {ns \in UNION {[1..n -> KnownNames] : n \in 0..MaxNames} :
     \A i, j \in 1..Len(ns) : i # j => ns[i] # ns[j]}

FlatTexts ==
  { From \o NameA,
    From \o NameSA \o Join \o NameA,
    From \o NameTA \o Join \o NameSA,
    From \o <<"[", "s", "]", ".", "[", "a", "]">> \o Join \o NameB \o Join \o NameTA,
    From \o <<"\"", "s", ".", "b", "\"">> \o Join \o NameSB,
    <<"I", "N", "T", "O", " ">> \o NameTA \o <<" ">> \o From \o <<"f", "(">>,
    <<"j", "o", "i", "n", " ">> \o NameSB \o <<" ", "i", "n", "t", "o", " ">> \o NameB }

FlatOptionCases ==
  {FlatOptions(TRUE, ns, f, k, <<>>) :
     ns \in NameSets, f \in BOOLEAN, k \in {<<>>, KeywordsLower}}
  \cup {FlatOptions(FALSE, <<>>, f, k, <<>>) :
          f \in BOOLEAN, k \in {<<>>, KeywordsLower}}

FlatCalls ==
  {ExtractCall(s, o) : s \in FlatTexts, o \in FlatOptionCases} \cup SmokeCalls

InitFlat == Called(FlatCalls)

SpecFlat == InitFlat /\ [][Next]_vars

\* Comments inside and between words: the halves of a keyword, a keyword, a
\* name, and closed comments of both kinds
CommentPieces ==
  { <<"F", "R">>,
    <<"O", "M", " ", "a">>,
    <<"F", "R", "O", "M">>,
    <<"a">>,
    <<" ", "b">>,
    <<"/", "*", "*", "/">>,
    <<"/", "*", "c", " ", "*", "/">>,
    <<"-", "-", "c", "\n">> }

CommentCalls ==
  {ExtractCall(s, Options(FALSE, <<>>, FALSE, <<>>, <<>>)) :
     s \in TextsOf(CommentPieces, MaxPieces)}
  \cup SmokeCalls

InitComments == Called(CommentCalls)

SpecComments == InitComments /\ [][Next]_vars

----------------------------------------------------------------------------
(* Properties                                                              *)

\* extractTableNames has returned
Returned == pc \in {"done", "returned"}

NoRepeat(list) ==
  \A i, j \in 1..Len(list) : i # j => list[i] # list[j]

\* the iterations of the exec loop that reached extractedTables.add
Kept == {k \in 1..Len(captures) : ~captures[k].skipped}

\* C1: allTables never holds a string twice, whatever the query and the
\* options; names are compared after resolution against the catalog.
C1_NoDuplicates == NoRepeat(result.allTables) /\ NoRepeat(extractedTables)

\* two different spellings were captured, resolved to one name, and the call
\* has returned
C1_Witness ==
  /\ Returned
  /\ \E i, j \in Kept :
       /\ captures[i].cleanTableName # captures[j].cleanTableName
       /\ captures[i].resolvedName = captures[j].resolvedName

\* list, restricted to the members of keep, in the order of list
Restrict(list, keep) == SelectSeq(list, LAMBDA t : t \in Range(keep))

\* C2: with filterCTEs and a catalog, every element of allTables is in exactly
\* one of realTables and filteredCTEs, neither holds anything else, and each
\* keeps the order of allTables.
C2_Partition ==
  (Returned /\ options.filterCTEs /\ options.hasCatalog) =>
    /\ \A t \in Range(result.allTables) :
         (t \in Range(result.realTables)) # (t \in Range(result.filteredCTEs))
    /\ Range(result.realTables) \cup Range(result.filteredCTEs)
         \subseteq Range(result.allTables)
    /\ result.realTables = Restrict(result.allTables, result.realTables)
    /\ result.filteredCTEs = Restrict(result.allTables, result.filteredCTEs)

\* a classified result with at least two real tables and a filtered name
C2_Witness ==
  /\ Returned /\ options.filterCTEs /\ options.hasCatalog
  /\ Len(result.realTables) >= 2
  /\ Len(result.filteredCTEs) >= 1

Tables == IF Returned THEN result.allTables ELSE extractedTables

\* where in the query the first accepted capture of name starts
FirstCapture(name) ==
  LET at == {captures[k].identStart : k \in {h \in Kept : captures[h].resolvedName = name}}
  IN  CHOOSE x \in at : \A y \in at : x <= y

\* C4: allTables is ordered by the text position of the first accepted capture
\* of each name, at every moment of the scan and in the result; a later
\* capture of a name already present does not move it.
C4_FirstOccurrenceOrder ==
  /\ Range(Tables) = {captures[k].resolvedName : k \in Kept}
  /\ \A i, j \in 1..Len(Tables) :
       i < j => FirstCapture(Tables[i]) < FirstCapture(Tables[j])

\* a name was captured again after another name had been captured
C4_Witness ==
  /\ Returned
  /\ Len(result.allTables) >= 2
  /\ \E i, j \in Kept :
       /\ i < j
       /\ captures[j].resolvedName = result.allTables[1]
       /\ captures[i].resolvedName = result.allTables[2]

\* the keyword alternative that the match of iteration c started with, as it
\* stands in the scrubbed text, upper-cased
TriggerKeyword(c) == ToUpperCase(Slice(cleanSql, c.index, c.kwEnd))

TableSourceKeyword(keyword) ==
  \/ keyword = <<"F", "R", "O", "M">>
  \/ keyword = <<"U", "S", "I", "N", "G">>
  \/ \E k \in 1..(Len(keyword) - 3) :
       SubSeq(keyword, k, k + 3) = <<"J", "O", "I", "N">>

FollowedByParen(c) ==
  \E k \in c.end..(Len(cleanSql) - 1) :
    /\ At(cleanSql, k) = "("
    /\ \A h \in c.end..(k - 1) : IsSpace(At(cleanSql, h))

\* C7: a capture is dropped exactly when it is followed by optional whitespace
\* and "(" and its trigger keyword, upper-cased, is FROM, is USING, or contains
\* JOIN; every other capture is kept.
C7_FunctionCallRule ==
  \A k \in 1..Len(captures) :
    captures[k].skipped <=>
      (FollowedByParen(captures[k]) /\ TableSourceKeyword(TriggerKeyword(captures[k])))

\* one run in which a parenthesised capture was dropped and another kept
C7_Witness ==
  /\ Returned
  /\ \E i, j \in 1..Len(captures) :
       /\ captures[i].skipped
       /\ FollowedByParen(captures[j]) /\ ~captures[j].skipped

\* the call the state belongs to has handed its value back to the caller
Finished ==
  IF entry = "getTableNamesSimple" THEN pc = "returned" ELSE pc = "done"

UsesDefaultKeywords == options.keywords = <<>> /\ options.customKeywords = <<>>

\* C5: with the default keyword list neither method throws, whatever the
\* text (empty, blank, or with an unterminated quote, bracket, backtick or
\* comment): the pattern always compiles, every pass of the scan loop ends
\* further right in the text than the one before, so the loop ends, and the
\* value handed back is a result.
C5_NeverThrows ==
  UsesDefaultKeywords =>
    /\ pc # "threw"
    /\ (pc = "compile") => PatternCompiles(allKeywords)
    /\ (pc = "body") => match.ok
    /\ \A k \in 1..Len(captures) :
         /\ captures[k].index < captures[k].end
         /\ captures[k].end <= Len(cleanSql)
         /\ k > 1 => captures[k - 1].end <= captures[k].index
    /\ Finished =>
         /\ Range(result.allTables) = Range(extractedTables)
         /\ (entry = "getTableNamesSimple") => (returned = result.realTables)

CountOf(s, c) == Cardinality({k \in 1..Len(s) : s[k] = c})

\* getTableNamesSimple has returned on a text with a string literal that is
\* never closed and a comment that is never closed
C5_Witness ==
  /\ UsesDefaultKeywords
  /\ pc = "returned"
  /\ CountOf(sql, "'") = 1
  /\ CountOf(sql, "*") = 1 /\ Includes(sql, <<"/", "*">>)

\* index of the first closing quote at or after k, a doubled single quote
\* being an escaped quote; -1 when the literal is never closed
RECURSIVE ClosingQuote(_, _, _)
ClosingQuote(s, k, quote) ==
  IF k >= Len(s) THEN -1
  ELSE IF At(s, k) # quote THEN ClosingQuote(s, k + 1, quote)
  ELSE IF quote = "'" /\ At(s, k + 1) = "'" THEN ClosingQuote(s, k + 2, quote)
  ELSE k

FollowsComparison(s, i) ==
  \/ At(s, i - 1) \in {"=", "!", "<", ">"}
  \/ IsSpace(At(s, i - 1)) /\ At(s, i - 2) \in {"=", "!", "<", ">"}

\* reading from k, in text made of plain characters and closed single-quoted
\* literals, a closed string literal opens at i
RECURSIVE LiteralOpensAt(_, _, _)
LiteralOpensAt(s, k, i) ==
  IF k > i THEN FALSE
  ELSE IF k = i
  THEN \/ At(s, i) = "'" /\ ClosingQuote(s, i + 1, "'") >= 0
       \/ At(s, i) = "\"" /\ FollowsComparison(s, i)
                          /\ ClosingQuote(s, i + 1, "\"") >= 0
  ELSE IF At(s, k) = "'"
  THEN LET c == ClosingQuote(s, k + 1, "'")
       IN  c >= 0 /\ LiteralOpensAt(s, c + 1, i)
  ELSE IF At(s, k) \in {"\"", "-", "/"} THEN FALSE
  ELSE LiteralOpensAt(s, k + 1, i)

LiteralStarts(s) == {i \in 0..(Len(s) - 1) : LiteralOpensAt(s, 0, i)}

LiteralContents(s, i) == Slice(s, i + 1, ClosingQuote(s, i + 1, At(s, i)))

\* s with the contents of the literal that opens at i replaced by contents
WithContents(s, i, contents) ==
  Slice(s, 0, i + 1) \o contents \o SliceFrom(s, ClosingQuote(s, i + 1, At(s, i)))

\* contents without a closing quote of either style
OtherContents ==
  { <<>>,
    <<"F", "R", "O", "M", " ", "x">>,
    <<" ", "J", "O", "I", "N", " ", "y", " ">>,
    <<"-", "-">>,
    <<"'", "'", "I", "N", "T", "O", " ", "z">> }

ContentsFor(quote) ==
  IF quote = "'" THEN OtherContents
  ELSE {c \in OtherContents : ~Includes(c, <<"'">>)} \cup {<<"'">>}

AfterLastDot(c) ==
  LET dots == {k \in 1..Len(c) : c[k] = "."}
  IN  IF dots = {} THEN c
      ELSE SubSeq(c, (CHOOSE k \in dots : \A h \in dots : h <= k) + 1, Len(c))

\* the fullyQualifiedName of the first entry of catalog that is among hits,
\* c when there is none
FirstOf(catalog, hits, c) ==
  IF hits = {} THEN c
  ELSE catalog[CHOOSE k \in hits : \A h \in hits : k <= h].fullyQualifiedName

KeyHits(catalog, c) == {k \in 1..Len(catalog) : catalog[k].key = c}

TableNameHits(catalog, c) ==
  {k \in 1..Len(catalog) : catalog[k].tableName = AfterLastDot(c)}

FullNameHits(catalog, c) ==
  {k \in 1..Len(catalog) : catalog[k].fullyQualifiedName = c}

KeyThenTableName(catalog, c) ==
  IF KeyHits(catalog, c) # {} THEN FirstOf(catalog, KeyHits(catalog, c), c)
  ELSE FirstOf(catalog, TableNameHits(catalog, c), c)

KeyThenTableNameOrFullName(catalog, c) ==
  IF KeyHits(catalog, c) # {} THEN FirstOf(catalog, KeyHits(catalog, c), c)
  ELSE FirstOf(catalog, TableNameHits(catalog, c) \cup FullNameHits(catalog, c), c)

\* C8, as stated: a cleaned identifier c is reported as the fullyQualifiedName
\* of the entry whose key is c, else of the first entry whose tableName is the
\* part of c after its last dot, else as c.
C8_AsStated ==
  options.hasCatalog =>
    \A k \in Kept :
      captures[k].resolvedName =
        KeyThenTableName(options.knownTables, captures[k].cleanTableName)

\* C8: a cleaned identifier c is reported as the fullyQualifiedName of the
\* entry whose key is c, else of the first entry, in catalog order, whose
\* tableName is the part of c after its last dot or whose fullyQualifiedName
\* is c, else as c.
C8_Resolution ==
  options.hasCatalog =>
    \A k \in Kept :
      captures[k].resolvedName =
        KeyThenTableNameOrFullName(options.knownTables, captures[k].cleanTableName)

\* no key is c, and an entry whose fullyQualifiedName is c comes before the
\* first entry whose tableName fits
C8_Witness ==
  /\ Returned /\ options.hasCatalog
  /\ \E k \in Kept :
       LET c == captures[k].cleanTableName
           catalog == options.knownTables
       IN  /\ KeyHits(catalog, c) = {}
           /\ TableNameHits(catalog, c) # {}
           /\ \E f \in FullNameHits(catalog, c) :
                \A t \in TableNameHits(catalog, c) : f < t
           /\ captures[k].resolvedName = c

\* C9: with filterCTEs and a catalog, a name of allTables is in realTables
\* exactly when some entry has it as key, or as fullyQualifiedName, or has the
\* part after its last dot as tableName; all other names are in filteredCTEs,
\* which is every name when the catalog is empty.
C9_KnownByName ==
  (Returned /\ options.filterCTEs /\ options.hasCatalog) =>
    LET catalog == options.knownTables
        known(n) == KeyHits(catalog, n) \cup TableNameHits(catalog, n)
                      \cup FullNameHits(catalog, n) # {}
    IN  /\ \A n \in Range(result.allTables) :
             /\ (n \in Range(result.realTables)) <=> known(n)
             /\ (n \in Range(result.filteredCTEs)) <=> ~known(n)
        /\ (catalog = <<>>) =>
             /\ result.realTables = <<>>
             /\ result.filteredCTEs = result.allTables

\* a classified result with a filtered name and a real table that is known by
\* its fully qualified name alone
C9_Witness ==
  /\ Returned /\ options.filterCTEs /\ options.hasCatalog
  /\ result.filteredCTEs # <<>>
  /\ \E n \in Range(result.realTables) :
       /\ KeyHits(options.knownTables, n) = {}
       /\ TableNameHits(options.knownTables, n) = {}

\* the query is FROM and one quoted segment
IsQuotedQuery(s) ==
  /\ Len(s) >= Len(From) + 3
  /\ SubSeq(s, 1, Len(From)) = From
  /\ At(s, Len(From)) \in {"[", "\"", Backtick}
  /\ s[Len(s)] = Closing(At(s, Len(From)))
  /\ \A k \in (Len(From) + 1)..(Len(s) - 2) : At(s, k) # s[Len(s)]

InnerText(s) == Slice(s, Len(From) + 1, Len(s) - 1)

\* C10: without a catalog, when the quoted segment of a query FROM [t],
\* FROM "t" or FROM with t between backticks is captured whole, t being free
\* of its own closing delimiter, the name reported is exactly t.
C10_QuotedRoundTrip ==
  (/\ Returned /\ ~options.hasCatalog /\ IsQuotedQuery(sql)
   /\ Len(captures) = 1
   /\ captures[1].tableIdentifier = SliceFrom(sql, Len(From))) =>
    result.allTables = <<InnerText(sql)>>

\* C11, as stated: scrubbing what the scrubber returned changes nothing.
C11_ScrubIdempotent ==
  (pc # "start") => RemoveCommentsAndStrings(cleanSql) = cleanSql

\* C12: getTableNamesSimple with a catalog returns the realTables of
\* extractTableNames with that catalog and filterCTEs true; without a catalog
\* it returns the allTables of extractTableNames with default options.
C12_SimpleReturns ==
  (pc = "returned") =>
    /\ options.hasCatalog =>
         returned = ExtractTableNames(sql,
                      Options(TRUE, options.knownTables, TRUE, <<>>, <<>>)).result.realTables
    /\ ~options.hasCatalog =>
         returned = ExtractTableNames(sql,
                      Options(FALSE, <<>>, FALSE, <<>>, <<>>)).result.allTables

\* getTableNamesSimple has returned with a catalog, and a name of the query
\* was left out of what it returned
C12_Witness ==
  /\ pc = "returned" /\ options.hasCatalog
  /\ returned # result.allTables

\* index of the first line feed at or after k, the length of s when none
RECURSIVE LineEnd(_, _)
LineEnd(s, k) ==
  IF k >= Len(s) \/ At(s, k) = "\n" THEN k ELSE LineEnd(s, k + 1)

\* index of the first star-slash at or after k, -1 when there is none
RECURSIVE CommentClose(_, _)
CommentClose(s, k) ==
  IF k + 1 >= Len(s) THEN -1
  ELSE IF At(s, k) = "*" /\ At(s, k + 1) = "/" THEN k
  ELSE CommentClose(s, k + 1)

\* from k on, s is made of whitespace, line comments and closed block comments
RECURSIVE CommentsOnlyFrom(_, _)
CommentsOnlyFrom(s, k) ==
  IF k >= Len(s) THEN TRUE
  ELSE IF At(s, k) \in {" ", "\n", "\t"} THEN CommentsOnlyFrom(s, k + 1)
  ELSE IF At(s, k) = "-" /\ At(s, k + 1) = "-"
  THEN CommentsOnlyFrom(s, LineEnd(s, k))
  ELSE IF At(s, k) = "/" /\ At(s, k + 1) = "*"
  THEN LET c == CommentClose(s, k + 2)
       IN  c >= 0 /\ CommentsOnlyFrom(s, c + 2)
  ELSE FALSE

\* C13: a query that is empty, or made only of whitespace and comments, gives
\* empty allTables, realTables and filteredCTEs (and getTableNamesSimple
\* returns the empty list).
C13_CommentsOnly ==
  (Returned /\ CommentsOnlyFrom(sql, 0)) =>
    /\ result = EmptyResult
    /\ returned = <<>>

\* the call has returned on a query whose only text, a keyword and a name, is
\* inside a comment
C13_Witness ==
  /\ Returned
  /\ CommentsOnlyFrom(sql, 0)
  /\ Includes(sql, <<"F", "R", "O", "M", " ", "a">>)

\* a block comment that is never closed opens at k, after plain text
UnterminatedAt(s, k) ==
  /\ At(s, k) = "/" /\ At(s, k + 1) = "*"
  /\ CommentClose(s, k + 2) = -1
  /\ \A h \in 0..(k - 1) : At(s, h) \notin {"'", "\"", "-", "/"}

\* C20, as stated: nothing from an unterminated block comment onward reaches
\* the scrubbed text, so the call returns what it returns for the text before
\* the comment.
C20_UnterminatedSkipsToEnd ==
  \A k \in 0..(Len(sql) - 2) :
    UnterminatedAt(sql, k) =>
      /\ (pc # "start") => cleanSql = RemoveCommentsAndStrings(Slice(sql, 0, k))
      /\ (pc = "done") =>
           result = ExtractTableNames(Slice(sql, 0, k), options).result

\* list without the later occurrences of each of its elements
RECURSIVE FirstOccurrences(_)
FirstOccurrences(list) ==
  IF list = <<>> THEN <<>>
  ELSE <<Head(list)>>
         \o FirstOccurrences(SelectSeq(Tail(list), LAMBDA x : x # Head(list)))

Reorderings(list) ==
  {[k \in 1..Len(list) |-> list[f[k]]] :
     f \in {g \in [1..Len(list) -> 1..Len(list)] :
              \A i, j \in 1..Len(list) : g[i] = g[j] => i = j}}

\* C15, as stated: with the keywords option in any other order the call
\* returns the same allTables, realTables and filteredCTEs.
C15_KeywordOrderIrrelevant ==
  (pc = "done") =>
    \A p \in Reorderings(options.keywords) :
      ExtractTableNames(sql, [options EXCEPT !.keywords = p]) =
        [threw |-> FALSE, result |-> result]

ExplicitEmptyKeywords ==
  options.hasKeywords /\ options.keywords = <<>> /\ options.customKeywords = <<>>

\* C16, as stated: with keywords: [] and no custom keywords the three lists of
\* the result are empty.
C16_AsStated ==
  (pc = "done" /\ ExplicitEmptyKeywords) => result = EmptyResult

\* C16: with keywords: [] and no custom keywords the call does not throw,
\* scans with the default keyword list, and returns what the same call
\* without a keywords option returns.
C16_EmptyListMeansDefault ==
  ExplicitEmptyKeywords =>
    /\ pc # "threw"
    /\ (pc \notin {"start", "keywords"}) => allKeywords = DefaultKeywords
    /\ (pc = "done") =>
         result = ExtractTableNames(sql, [options EXCEPT !.hasKeywords = FALSE]).result

\* a call with keywords: [] has returned a table
C16_Witness ==
  /\ pc = "done" /\ ExplicitEmptyKeywords
  /\ result.allTables # <<>>

\* C17, as stated: no keywords or customKeywords list makes the call throw.
C17_TotalOverKeywords == pc # "threw"

\* the calls that have ended, the one in progress included once it has
EndedCalls ==
  IF Ended THEN Append(history, [call |-> CurrentCall, outcome |-> Outcome])
  ELSE history

\* C18: two calls of one session with the same method, the same sql and the
\* same options end the same way, whatever calls came before or between.
C18_Stateless ==
  \A i, j \in 1..Len(EndedCalls) :
    EndedCalls[i].call = EndedCalls[j].call =>
      EndedCalls[i].outcome = EndedCalls[j].outcome

\* the third call of a session repeats the first, a different call that found
\* tables came between, and it has returned tables
C18_Witness ==
  /\ Ended /\ Len(history) = 2
  /\ history[1].call = CurrentCall
  /\ history[2].call # CurrentCall
  /\ history[2].outcome.result.allTables # <<>>
  /\ result.allTables # <<>>

\* C19: no step of a call changes the caller's sql, catalog, keywords or
\* customKeywords, and no step at all changes the module-level default
\* keyword list.
C19_InputsUnchanged ==
  [][/\ defaultSqlKeywords' = defaultSqlKeywords
     /\ (pc' # "start") => (options' = options /\ sql' = sql)]_vars

\* a call with custom keywords on top of the default list has ended, and so
\* has a later one with custom keywords on top of its own keywords list
C19_Witness ==
  /\ Ended /\ Len(history) >= 1
  /\ KeywordsGiven(options) /\ options.customKeywords # <<>>
  /\ \E k \in 1..Len(history) :
       /\ ~KeywordsGiven(history[k].call.options)
       /\ history[k].call.options.customKeywords # <<>>
  /\ defaultSqlKeywords = DefaultKeywords

\* the double quote that opens the quoted segment of a query FROM "t" is kept
\* as an identifier quote
OpensIdentifier(s) ==
  /\ IsQuotedQuery(s)
  /\ At(s, Len(From)) = "\""
  /\ ScrubStep(s, Len(From), From).branch = "doubleQuoteKept"

\* C21, as stated: a double-quoted span classified as a quoted identifier
\* reaches the scrubbed text verbatim, opening quote, every content character
\* and closing quote, whatever the content is.
C21_IdentifierVerbatim ==
  (pc # "start" /\ OpensIdentifier(sql)) => cleanSql = sql

\* the last character of s that is not whitespace
LastNonSpace(s) ==
  LET ks == {k \in 1..Len(s) : ~IsSpace(s[k])}
  IN  IF ks = {} THEN Undefined ELSE s[CHOOSE k \in ks : \A h \in ks : h <= k]

\* index of the first double quote of s, when everything before it is copied
\* to the output as it stands; -1 otherwise
FirstQuoteAfterPlainText(s) ==
  LET q == FindChar(s, 0, "\"")
  IN  IF q >= 0 /\ \A h \in 0..(q - 1) : At(s, h) \notin {"'", "-", "/"}
      THEN q ELSE -1

\* C22, as stated: a double-quoted span is removed as a string literal exactly
\* when the last character emitted before it that is not whitespace is one of
\* = ! < >, however much whitespace lies between; otherwise its quote is kept.
C22_LiteralIffComparison ==
  LET q == FirstQuoteAfterPlainText(sql)
  IN  (pc # "start" /\ q >= 0) =>
        (("\"" \notin Range(cleanSql))
           <=> (LastNonSpace(Slice(sql, 0, q)) \in {"=", "!", "<", ">"}))

\* the characters of keyword stand at p in text, in either case, followed by
\* whitespace and an identifier
OccursAt(text, p, keyword) ==
  /\ ToUpperCase(Slice(text, p, p + Len(keyword))) = ToUpperCase(keyword)
  /\ TailMatch(text, p + Len(keyword)).ok

Occurrences(text, keywords) ==
  {p \in 0..(Len(text) - 1) : \E k \in 1..Len(keywords) : OccursAt(text, p, keywords[k])}

\* the exec loop has ended
Scanned == pc \in {"classify", "done", "returned"}

\* C23, as stated: every keyword of the effective list is a literal phrase:
\* each match starts with the characters of one of the keywords, in either
\* case, and the first match is at the leftmost place where the characters of
\* a keyword stand followed by whitespace and an identifier; there is no match
\* when there is no such place.
C23_LiteralPhrases ==
  Scanned =>
    LET occ == Occurrences(cleanSql, allKeywords)
    IN  /\ \A c \in 1..Len(captures) :
             \E k \in 1..Len(allKeywords) :
               TriggerKeyword(captures[c]) = ToUpperCase(allKeywords[k])
        /\ (occ = {}) <=> (captures = <<>>)
        /\ (occ # {}) => \A p \in occ : captures[1].index <= p

\* C24: the scrubbed text is whitespace-normalised: it does not start or end
\* with a whitespace character, no two whitespace characters stand side by
\* side, and its only whitespace character is the space.
C24_Normalised ==
  (pc # "start") =>
    /\ \A k \in 1..Len(cleanSql) : IsSpace(cleanSql[k]) => cleanSql[k] = " "
    /\ \A k \in 1..(Len(cleanSql) - 1) :
         ~(IsSpace(cleanSql[k]) /\ IsSpace(cleanSql[k + 1]))
    /\ (cleanSql # <<>>) =>
         ~IsSpace(cleanSql[1]) /\ ~IsSpace(cleanSql[Len(cleanSql)])

\* before normalisation the output held tabs, a run of whitespace, and
\* whitespace at its end, and something is left of it
C24_Witness ==
  /\ pc = "done"
  /\ cleanSql # <<>>
  /\ LET raw == ScrubLoop(sql, 0, <<>>)
     IN  /\ IsSpace(raw[Len(raw)])
         /\ "\t" \in Range(raw)
         /\ \E k \in 1..(Len(raw) - 1) : IsSpace(raw[k]) /\ IsSpace(raw[k + 1])

\* opts without its catalog
WithoutCatalog(opts) ==
  [opts EXCEPT !.hasCatalog = FALSE, !.knownTables = <<>>]

\* C25: with the flat Set of known names the catalog does not change which
\* names are extracted: allTables, with filterCTEs or without, is what the
\* call without a catalog returns, and every name is the cleaned captured
\* identifier itself.
C25_FlatCatalogIrrelevant ==
  (Returned /\ options.flatSet /\ options.hasCatalog) =>
    /\ result.allTables =
         ExtractTableNames(sql, WithoutCatalog(options)).result.allTables
    /\ \A k \in Kept :
         captures[k].resolvedName = CleanTableName(captures[k].tableIdentifier)
    /\ Range(result.allTables) =
         {CleanTableName(captures[k].tableIdentifier) : k \in Kept}

\* a qualified name was captured whose last part is a known name while the
\* name itself is not, and the classification has put it among the real tables
\* next to a filtered name
C25_Witness ==
  /\ Returned /\ options.flatSet /\ options.hasCatalog /\ options.filterCTEs
  /\ result.filteredCTEs # <<>>
  /\ \E t \in Range(result.realTables) :
       /\ t \notin Range(options.knownTables)
       /\ TableWithoutSchema(t) \in Range(options.knownTables)

\* the pattern matches with its keyword starting at p
MatchesAt(p) == MatchAt(regex.alts, cleanSql, p, 1).ok

\* where the scan stood before iteration k of the exec loop
ResumedAt(k) == IF k = 1 THEN 0 ELSE captures[k - 1].end

\* C26: matches are taken left to right and do not overlap: each match,
\* accepted or suppressed, starts at or after the end of the identifier of the
\* match before it, at the first place from there where the pattern matches,
\* and the scan resumes right after its identifier; so the text of a captured
\* identifier is never the keyword of a later match.
C26_NonOverlapping ==
  /\ \A k \in 1..Len(captures) :
       /\ ResumedAt(k) <= captures[k].index
       /\ \A p \in ResumedAt(k)..(captures[k].index - 1) : ~MatchesAt(p)
       /\ \A h \in 1..Len(captures) :
            h # k => captures[h].index \notin captures[k].identStart..(captures[k].end - 1)
  /\ (pc = "exec" /\ captures # <<>>) =>
       regex.lastIndex = captures[Len(captures)].end
  /\ Scanned =>
       \A p \in ResumedAt(Len(captures) + 1)..Len(cleanSql) : ~MatchesAt(p)

\* FROM FROM a: the second FROM was captured as a name, the pattern would
\* match from it, and the call has returned that one name
C26_Witness ==
  /\ pc = "done"
  /\ Len(captures) = 1
  /\ MatchesAt(captures[1].identStart)
  /\ result.allTables = << <<"F", "R", "O", "M">> >>

\* the captures that had taken the character at p before a match could start
\* there
Consumed(p) ==
  \E k \in 1..Len(captures) : captures[k].index < p /\ p < captures[k].end

RECURSIVE WithoutComments(_, _)
WithoutComments(s, k) ==
  IF k >= Len(s) THEN <<>>
  ELSE IF At(s, k) = "-" /\ At(s, k + 1) = "-"
  THEN WithoutComments(s, LineEnd(s, k))
  ELSE IF At(s, k) = "/" /\ At(s, k + 1) = "*" /\ CommentClose(s, k + 2) >= 0
  THEN WithoutComments(s, CommentClose(s, k + 2) + 2)
  ELSE <<At(s, k)>> \o WithoutComments(s, k + 1)

\* s has no quote, and every block comment of s is closed
RECURSIVE ClosedCommentsOnly(_, _)
ClosedCommentsOnly(s, k) ==
  IF k >= Len(s) THEN TRUE
  ELSE IF At(s, k) \in {"'", "\""} THEN FALSE
  ELSE IF At(s, k) = "-" /\ At(s, k + 1) = "-"
  THEN ClosedCommentsOnly(s, LineEnd(s, k))
  ELSE IF At(s, k) = "/" /\ At(s, k + 1) = "*"
  THEN CommentClose(s, k + 2) >= 0
       /\ ClosedCommentsOnly(s, CommentClose(s, k + 2) + 2)
  ELSE ClosedCommentsOnly(s, k + 1)

FromC == <<"F", "R", "O", "M", "/", "*", "c", " ", "*", "/", "a">>

FrOm == <<"F", "R", "/", "*", "*", "/", "O", "M", " ", "a">>

\* C28: a comment leaves nothing in its place: in a text without quotes whose
\* block comments are closed, the scrubbed text is the text with its comments
\* cut out and the two sides joined, whitespace-normalised.  So a keyword and
\* a name with only a block comment between them become one word and nothing
\* is captured, and a keyword split by a block comment is recognised.
C28_CommentLeavesNothing ==
  /\ (pc # "start" /\ ClosedCommentsOnly(sql, 0)) =>
       cleanSql = Trim(CollapseWhitespace(WithoutComments(sql, 0), 1))
  /\ (Scanned /\ UsesDefaultKeywords /\ sql = FromC) =>
       /\ cleanSql = <<"F", "R", "O", "M", "a">>
       /\ captures = <<>>
  /\ (Scanned /\ UsesDefaultKeywords /\ sql = FrOm) =>
       /\ Len(captures) = 1
       /\ captures[1].tableIdentifier = <<"a">>
       /\ Tables = << <<"a">> >>

\* the call has returned the name that follows a keyword split by a comment
C28_Witness ==
  /\ pc = "done"
  /\ sql = FrOm
  /\ result.allTables = << <<"a">> >>

\* resolution finds an entry of catalog for the cleaned identifier c
Matched(catalog, c) ==
  KeyHits(catalog, c) \cup TableNameHits(catalog, c) \cup FullNameHits(catalog, c) # {}

\* C29: with a Map catalog and filterCTEs, classification agrees with
\* resolution: the name reported for a captured identifier is in realTables
\* exactly when resolution matched the identifier to an entry, and in
\* filteredCTEs otherwise; every element of realTables is the
\* fullyQualifiedName of an entry, and every element of filteredCTEs is a
\* cleaned captured identifier that resolution matched to nothing and returned
\* as it was.
C29_ClassificationAgrees ==
  (Returned /\ ~options.flatSet /\ options.hasCatalog /\ options.filterCTEs) =>
    LET catalog == options.knownTables
    IN  /\ \A k \in Kept :
             /\ (captures[k].resolvedName \in Range(result.realTables))
                  <=> Matched(catalog, captures[k].cleanTableName)
             /\ (captures[k].resolvedName \in Range(result.filteredCTEs))
                  <=> ~Matched(catalog, captures[k].cleanTableName)
        /\ \A t \in Range(result.realTables) :
             \E e \in 1..Len(catalog) : catalog[e].fullyQualifiedName = t
        /\ \A t \in Range(result.filteredCTEs) :
             \E k \in Kept :
               /\ captures[k].cleanTableName = t
               /\ captures[k].resolvedName = t
               /\ ~Matched(catalog, t)

\* an identifier was resolved to another name, which the catalog knows as a
\* fullyQualifiedName only, and another identifier was filtered
C29_Witness ==
  /\ Returned /\ ~options.flatSet /\ options.hasCatalog /\ options.filterCTEs
  /\ result.filteredCTEs # <<>>
  /\ \E k \in Kept :
       /\ captures[k].resolvedName # captures[k].cleanTableName
       /\ KeyHits(options.knownTables, captures[k].resolvedName) = {}
       /\ TableNameHits(options.knownTables, captures[k].resolvedName) = {}
       /\ captures[k].resolvedName \in Range(result.realTables)

\* the output buffers that decide the branch taken at a double quote
BufferCases == {<<>>, <<"=">>}

====
